---- MODULE Spec2Model ----
(***************************************************************************)
(* Document indexing and retrieval subsystem of the Dashboard application: *)
(* the doc_fts full-text index, the handlers and commands that write it    *)
(* (project_mcpo_upload, backfill_fts, fts_reindex, scripts/ocr_backfill)  *)
(* and the /search route that reads it.                                    *)
(***************************************************************************)
EXTENDS Integers, Sequences, FiniteSets, Bags, TLC

VARIABLES
    project_documents,  \* table project_documents: id -> row, or NoRow
    files,              \* upload directory: stored_path -> file content, or NoFile
    foia_attachments,   \* table foia_attachments: id -> row (with its files), or NoRow
    doc_fts,            \* table doc_fts: a bag of index rows (no uniqueness constraint)
    resp,               \* the response of the /search request just served
    lastOp,             \* history: what the operation just completed did
    lastCall,           \* the last call of a text-extraction or OCR function:
                        \* its arguments and what it returned and left on disk
    entities,           \* table entities: the rows in id order (id = position)
    entity_mentions,    \* table entity_mentions: the rows in id order
    procs,              \* the requests in progress: each one's position in its
                        \* handler, its locals and its uncommitted writes
    alerts              \* send-alerts: the clock, the reminder markers of the
                        \* requests and projects, and the messages sent

vars == <<project_documents, files, foia_attachments, doc_fts, resp, lastOp, lastCall,
          entities, entity_mentions, procs, alerts>>

\* the tables, the upload directory and the request history
app == <<project_documents, files, foia_attachments, doc_fts, resp, lastOp>>

----------------------------------------------------------------------------
(* Bounds of the model *)

MaxDocId == 2       \* project_documents ids are 1..MaxDocId
MaxAttId == 1       \* foia_attachments ids are 1..MaxAttId

DocIds == 1..MaxDocId
AttIds == 1..MaxAttId

NoRow  == [absent |-> TRUE]      \* no row with this id
NoFile == [missing |-> TRUE]     \* os.path.exists(path) is False
NoMime == << >>                  \* mime_type IS NULL

----------------------------------------------------------------------------
(* Text: a stripped string is a sequence of words separated by single      *)
(* blanks, a word is a tuple of characters.                                *)

W_or   == <<"o", "r">>
W_orb  == <<"o", "r", "b">>
W_orbs == <<"o", "r", "b", "s">>
Pad    == <<" ">>         \* a run of extra whitespace, removed by str.strip() at the ends

RECURSIVE SumLen(_)
SumLen(t) == IF t = <<>> THEN 0 ELSE Len(Head(t)) + SumLen(Tail(t))

RECURSIVE StripLeft(_)
StripLeft(t) == IF t # <<>> /\ Head(t) = Pad THEN StripLeft(Tail(t)) ELSE t

RECURSIVE StripRight(_)
StripRight(t) ==
    IF t # <<>> /\ t[Len(t)] = Pad THEN StripRight(SubSeq(t, 1, Len(t) - 1)) ELSE t

\* str.strip()
Strip(t) == StripRight(StripLeft(t))

\* len(txt.strip()) of a text of words joined by blanks
StrippedLen(t) ==
    LET s == Strip(t) IN IF s = <<>> THEN 0 ELSE SumLen(s) + (Len(s) - 1)

EmptyText == <<>>
ScanText  == <<W_or, W_orb>>                  \* 6 characters
LongText  == <<W_orb, W_orb, W_orb, W_orb, W_orb, W_orb>>  \* 23 characters
Text19    == <<W_orb, W_orb, W_orb, W_orb, W_orb>>         \* 19 characters
Text20    == <<W_orb, W_orb, W_orb, W_orb, W_orbs>>        \* 20 characters
Padded19  == <<Pad>> \o Text19                \* 21 characters, 19 when stripped

OCR_MIN_CHARS == 20

\* a page image: the text Tesseract reads on it, or a page that fails to
\* render or to OCR
Page(t) == [ok |-> TRUE, text |-> t]
BadPage == [ok |-> FALSE, text |-> EmptyText]

\* A PDF on disk: `layer` is its embedded text layer, `scan` its page
\* images, `readable` whether it parses as a PDF.
Scanned == [readable |-> TRUE,  layer |-> EmptyText, scan |-> <<Page(ScanText)>>]
Digital == [readable |-> TRUE,  layer |-> LongText,  scan |-> <<Page(LongText)>>]
Corrupt == [readable |-> FALSE, layer |-> EmptyText, scan |-> << >>]

\* (bug variant: the handler lets the exception through)
Escapes_Uncaught(throws, caught) == throws

\* does an exception thrown inside a try block leave it: not when the
\* block has `except Exception`
Escapes(throws, caught) == throws /\ ~caught

\* pdfminer's extract_text raises on a missing or unparsable file
pdfminer_extract_throws(c) == c = NoFile \/ ~c.readable

\* pdfminer: the text layer; any exception (unreadable or missing file) is ""
pdfminer_text(c) == IF pdfminer_extract_throws(c) THEN EmptyText ELSE c.layer

pdfminer_raises(c) == Escapes(pdfminer_extract_throws(c), TRUE)

\* the page loop: a page whose rendering or OCR raises is skipped, a page
\* without text adds nothing
RECURSIVE OcrPages(_)
OcrPages(pages) ==
    IF pages = << >> THEN EmptyText
    ELSE LET p == Head(pages) IN
         IF p.ok /\ p.text # EmptyText THEN p.text \o OcrPages(Tail(pages))
         ELSE OcrPages(Tail(pages))

\* PyMuPDF + Tesseract: "" without the OCR packages or when the file does
\* not open, else the stripped text of the pages that could be read
ocr_pdf_text(c, deps) ==
    IF ~deps THEN EmptyText
    ELSE IF c = NoFile \/ ~c.readable THEN EmptyText
    ELSE Strip(OcrPages(c.scan))

ocr_raises(c, deps) ==
    /\ deps
    /\ \/ Escapes(c = NoFile \/ ~c.readable, TRUE)          \* fitz.open
       \/ /\ c # NoFile /\ c.readable
          /\ \E i \in 1..Len(c.scan) : Escapes(~c.scan[i].ok, TRUE)

\* (bug variant: OCR is tried at the threshold too)
OcrWanted_AtThreshold(txt, ocr_fallback) ==
    ocr_fallback /\ StrippedLen(txt) <= OCR_MIN_CHARS

\* "If very little text found AND ocr_fallback=True, run OCR"
OcrWanted(txt, ocr_fallback) == ocr_fallback /\ StrippedLen(txt) < OCR_MIN_CHARS

\* one call of extract_pdf_text: the returned string, whether _ocr_pdf_text
\* was called, whether an exception left the function
ExtractRun(c, ocr_fallback, deps) ==
    LET txt     == pdfminer_text(c)
        invoked == OcrWanted(txt, ocr_fallback)
        ocr_txt == ocr_pdf_text(c, deps)
    IN [ret     |-> IF invoked /\ StrippedLen(ocr_txt) > StrippedLen(txt)
                    THEN ocr_txt ELSE txt,
        invoked |-> invoked,
        raised  |-> pdfminer_raises(c) \/ (invoked /\ ocr_raises(c, deps))]

extract_pdf_text(c, ocr_fallback, deps) == ExtractRun(c, ocr_fallback, deps).ret

\* ocrmypdf --skip-text: pages that have text are kept, image-only pages get
\* a text layer.  The result of a successful run.
ocrmypdf_output(c) ==
    [c EXCEPT !.layer = IF c.layer = EmptyText THEN OcrPages(c.scan) ELSE c.layer]

\* the tool is on PATH, exits 0 and wrote its output
ocrmypdf_succeeds(c, toolOk) == toolOk /\ c # NoFile /\ c.readable

\* what a failed ocrmypdf run may leave at its output path
PartialOutput == [readable |-> FALSE, layer |-> EmptyText, scan |-> << >>]

\* ocr_utils.pdf_has_text: the file has an extractable text layer
pdf_has_text(c) == ~pdfminer_extract_throws(c) /\ StrippedLen(c.layer) > 0

\* ocr_utils.ocr_with_pymupdf_tesseract (rasterize each page and OCR it):
\* True unless opening, rendering or Tesseract raises
ocr_with_pymupdf_tesseract(c, deps) ==
    deps /\ c # NoFile /\ c.readable /\ \A i \in 1..Len(c.scan) : c.scan[i].ok

\* one call of ocr_utils.make_searchable(in_path, out_path): the returned
\* value, the file at out_path afterwards, the subprocesses it started and
\* whether it went on to the rasterize-then-OCR strategy
MakeSearchableRun(c, toolOk, partial) ==
    LET done == ocrmypdf_succeeds(c, toolOk)
        out  == IF done THEN ocrmypdf_output(c)
                ELSE IF partial /\ c # NoFile THEN PartialOutput ELSE NoFile
    IN [ret        |-> done /\ out # NoFile,
        out        |-> out,
        subprocess |-> {"ocrmypdf"},
        strategyB  |-> FALSE,
        raised     |-> FALSE]

\* ocr_utils.make_searchable: ocrmypdf only; False when it is missing or fails
make_searchable(c, toolOk) == MakeSearchableRun(c, toolOk, FALSE).ret

\* app.make_searchable_pdf: the OCR'd copy at a new path, or the original
\* path when ocrmypdf is missing or fails (its output file is removed)
make_searchable_pdf(c, toolOk) ==
    IF ocrmypdf_succeeds(c, toolOk)
    THEN [new |-> TRUE,  file |-> ocrmypdf_output(c)]
    ELSE [new |-> FALSE, file |-> c]

\* (bug variant: the handler replaces the stored file with whatever is at
\* the path make_searchable_pdf wrote to)
UploadStored_AlwaysReplace(c, looks_like_pdf, toolOk) ==
    IF looks_like_pdf /\ StrippedLen(pdfminer_text(c)) < OCR_MIN_CHARS
    THEN IF ocrmypdf_succeeds(c, toolOk) THEN ocrmypdf_output(c) ELSE PartialOutput
    ELSE c

\* the upload handler's sniff: the file at stored_path once a PDF with
\* fewer than 20 characters of text has been through make_searchable_pdf
UploadStored(c, looks_like_pdf, toolOk) ==
    IF looks_like_pdf /\ StrippedLen(extract_pdf_text(c, FALSE, FALSE)) < OCR_MIN_CHARS
    THEN LET r == make_searchable_pdf(c, toolOk) IN
         IF r.new THEN r.file ELSE c
    ELSE c

----------------------------------------------------------------------------
(* File names and MIME types *)

UpperChars == {"A", "B", "C", "D", "E", "F", "G", "H", "I", "J", "K", "L", "M",
               "N", "O", "P", "Q", "R", "S", "T", "U", "V", "W", "X", "Y", "Z"}

LowerChars == {"a", "b", "c", "d", "e", "f", "g", "h", "i", "j", "k", "l", "m",
               "n", "o", "p", "q", "r", "s", "t", "u", "v", "w", "x", "y", "z"}

Fold(ch) ==
    CASE ch = "A" -> "a" [] ch = "B" -> "b" [] ch = "C" -> "c" [] ch = "D" -> "d"
      [] ch = "E" -> "e" [] ch = "F" -> "f" [] ch = "G" -> "g" [] ch = "H" -> "h"
      [] ch = "I" -> "i" [] ch = "J" -> "j" [] ch = "K" -> "k" [] ch = "L" -> "l"
      [] ch = "M" -> "m" [] ch = "N" -> "n" [] ch = "O" -> "o" [] ch = "P" -> "p"
      [] ch = "Q" -> "q" [] ch = "R" -> "r" [] ch = "S" -> "s" [] ch = "T" -> "t"
      [] ch = "U" -> "u" [] ch = "V" -> "v" [] ch = "W" -> "w" [] ch = "X" -> "x"
      [] ch = "Y" -> "y" [] ch = "Z" -> "z"
      [] OTHER -> ch

\* str.lower()
Lower(w) == [i \in 1..Len(w) |-> Fold(w[i])]

Ext_pdf  == <<"p", "d", "f">>
Ext_PDF  == <<"P", "D", "F">>
Ext_docx == <<"d", "o", "c", "x">>

Mime_pdf  == <<"application", "pdf">>
Mime_text == <<"text", "plain">>

\* what a client sends: (extension of the file name, Content-Type, bytes)
Uploads == { <<Ext_pdf,  Mime_pdf,  Scanned>>,    \* a scan, PDF by name and type
             <<Ext_PDF,  NoMime,    Digital>>,    \* PDF by name only
             <<Ext_docx, Mime_pdf,  Corrupt>>,    \* PDF by type only, unreadable
             <<Ext_docx, Mime_text, Corrupt>> }   \* not a PDF

ALLOWED_EXTS == { Ext_pdf, <<"d", "o", "c">>, Ext_docx, <<"c", "s", "v">>,
                  <<"x", "l", "s", "x">>, <<"p", "n", "g">>, <<"j", "p", "g">>,
                  <<"j", "p", "e", "g">>, <<"g", "i", "f">> }

\* a file name base[-n].ext
FileName(n, ext) == [base |-> <<"a">>, n |-> n, ext |-> ext]

\* lower(mime) LIKE 'application/pdf%'
MimeIsPdf(m) == m # NoMime /\ m = Mime_pdf
\* lower(filename) LIKE '%.pdf'
NameIsPdf(fn) == Lower(fn.ext) = Ext_pdf

\* (bug variant: no eligibility filter)
is_pdf_row_Any(fn, mt) == TRUE

\* the eligibility filter of backfill_fts, fts_reindex and ocr_backfill
is_pdf_row(fn, mt) == NameIsPdf(fn) \/ MimeIsPdf(mt)

----------------------------------------------------------------------------
(* doc_fts *)

Row(id, title, body, origin) ==
    [doc_id |-> id, title |-> title, body |-> body, origin |-> origin]

\* (bug variant: the DELETE matches nothing)
DeleteDocId_None(idx, id) == idx

\* DELETE FROM doc_fts WHERE doc_id = :id
DeleteDocId(idx, id) ==
    [r \in {x \in DOMAIN idx : x.doc_id # id} |-> idx[r]]

\* INSERT INTO doc_fts (doc_id, title, body) VALUES (...)
InsertRow(idx, r) == idx (+) SetToBag({r})

\* (bug variant: insert without the preceding delete)
Upsert_InsertOnly(idx, r) == InsertRow(idx, r)

\* "simple upsert: delete then insert to avoid dupes"
Upsert(idx, r) == InsertRow(DeleteDocId(idx, r.doc_id), r)

RowsOf(idx, id) == {r \in DOMAIN idx : r.doc_id = id}

RECURSIVE SumCopies(_, _)
SumCopies(idx, S) ==
    IF S = {} THEN 0
    ELSE LET r == CHOOSE x \in S : TRUE IN idx[r] + SumCopies(idx, S \ {r})

\* SELECT COUNT(*) FROM doc_fts WHERE doc_id = :id
CountRows(idx, id) == SumCopies(idx, RowsOf(idx, id))

IndexedIds(idx) == {r.doc_id : r \in DOMAIN idx}

----------------------------------------------------------------------------
ExistingDocs == {i \in DocIds : project_documents[i] # NoRow}
ExistingAtts == {i \in AttIds : foia_attachments[i] # NoRow}

Max(S) == CHOOSE x \in S : \A y \in S : y <= x
Min(S) == CHOOSE x \in S : \A y \in S : x <= y

\* SQLite rowid allocation of an INTEGER PRIMARY KEY without AUTOINCREMENT
NextId(S) == IF S = {} THEN 1 ELSE Max(S) + 1

NoResp == [kind |-> "none"]
NoCall == [call |-> "none"]

\* the operation just completed, whether the OCR packages (PyMuPDF, PIL,
\* pytesseract) were importable in its process, whether it committed an
\* INSERT INTO doc_fts, whether it directly follows a run of the same
\* operation that committed one, how many temporary plaintext files it
\* created and did not delete, and whether it is a backfill that completed
\* directly after a backfill that was stopped
Op(name, deps, wrote) ==
    [op |-> name, deps |-> deps, wrote |-> wrote,
     again |-> (lastOp.op = name /\ lastOp.wrote), left |-> 0,
     resumed |-> (name = "backfill_fts" /\ lastOp.op = "backfill_fts_raised")]

Init ==
    /\ project_documents = [i \in DocIds |-> NoRow]
    /\ files = [p \in {} |-> NoFile]
    /\ foia_attachments = [i \in AttIds |-> NoRow]
    /\ doc_fts = EmptyBag
    /\ resp = NoResp
    /\ lastOp = [op |-> "init", deps |-> FALSE, wrote |-> FALSE, again |-> FALSE,
                 left |-> 0, resumed |-> FALSE]
    /\ lastCall = NoCall
    /\ entities = << >>
    /\ entity_mentions = << >>
    /\ procs = << >>
    /\ alerts = << >>

----------------------------------------------------------------------------
(* The upload directory *)

FileAt(fs, p) == IF p \in DOMAIN fs THEN fs[p] ELSE NoFile

WriteFile(fs, p, c) == [q \in (DOMAIN fs) \cup {p} |-> IF q = p THEN c ELSE fs[q]]

RemoveFile(fs, p) == [q \in (DOMAIN fs) \ {p} |-> fs[q]]

\* "Avoid overwriting by suffixing": the first of name.ext, name-1.ext, ...
\* that does not exist
RECURSIVE FreeName(_, _, _)
FreeName(fs, n, ext) ==
    IF FileName(n, ext) \in DOMAIN fs THEN FreeName(fs, n + 1, ext)
    ELSE FileName(n, ext)

\* COALESCE(NULLIF(d.title,''), d.filename), then `or "Untitled"`
TitleOf(d) == d.title

DocIsPdf(d) == is_pdf_row(d.filename, d.mime_type)

----------------------------------------------------------------------------
(* POST /projects/mcpo-plea-deals/upload, one file *)

project_mcpo_upload(up, toolOk, deps, ftsOk) ==
    LET ext      == up[1]
        c        == up[3]
        id       == NextId(ExistingDocs)
        filename == FreeName(files, 0, ext)
        looks_like_pdf == MimeIsPdf(up[2]) \/ Lower(filename.ext) = Ext_pdf
        pre_txt  == extract_pdf_text(c, FALSE, deps)
        sniffed  == looks_like_pdf /\ StrippedLen(pre_txt) < OCR_MIN_CHARS
        \* make_searchable_pdf + os.replace, or the original on failure
        stored   == UploadStored(c, looks_like_pdf, toolOk)
        mime     == IF sniffed THEN Mime_pdf ELSE up[2]
        doc      == [title |-> filename, filename |-> filename,
                     stored_path |-> filename, mime_type |-> mime]
        body     == extract_pdf_text(stored, TRUE, deps)
    IN
    /\ Lower(ext) \in ALLOWED_EXTS
    /\ id \in DocIds
    /\ files' = WriteFile(files, filename, stored)
    /\ project_documents' = [project_documents EXCEPT ![id] = doc]
    \* "FTS index insert failed" is logged and the upload goes on
    /\ doc_fts' = IF looks_like_pdf /\ ftsOk
                  THEN Upsert(doc_fts, Row(id, TitleOf(doc), body, "project"))
                  ELSE doc_fts
    /\ UNCHANGED <<lastCall, entities, entity_mentions, procs, alerts>>
    /\ resp' = NoResp
    /\ lastOp' = Op("upload", deps, looks_like_pdf /\ ftsOk)
    /\ UNCHANGED foia_attachments

(* POST /projects/doc/<id>/delete *)
project_doc_delete(id) ==
    /\ id \in ExistingDocs
    /\ files' = RemoveFile(files, project_documents[id].stored_path)
    /\ project_documents' = [project_documents EXCEPT ![id] = NoRow]
    /\ UNCHANGED <<lastCall, entities, entity_mentions, procs, alerts>>
    /\ resp' = NoResp
    /\ lastOp' = Op("delete", FALSE, FALSE)
    /\ UNCHANGED <<foia_attachments, doc_fts>>

----------------------------------------------------------------------------
(* backfill_fts: index the PDFs of project_documents that have no row *)

\* (bug variant: no anti-join against doc_fts)
BackfillMissing_NoAntiJoin(docs, idx) ==
    {i \in DocIds : docs[i] # NoRow /\ DocIsPdf(docs[i])}

\* (bug variant: the filter looks at the file name only)
BackfillMissing_ByNameOnly(docs, idx) ==
    {i \in DocIds : docs[i] # NoRow /\ NameIsPdf(docs[i].filename) /\ RowsOf(idx, i) = {}}

\* (bug variant: the anti-join asks whether doc_fts has any row at all)
BackfillMissing_EmptyIndexOnly(docs, idx) ==
    {i \in DocIds : docs[i] # NoRow /\ DocIsPdf(docs[i]) /\ DOMAIN idx = {}}

\* ... AND NOT EXISTS (SELECT 1 FROM doc_fts f WHERE f.doc_id = d.id)
BackfillMissing(docs, idx) ==
    {i \in DocIds : docs[i] # NoRow /\ DocIsPdf(docs[i]) /\ RowsOf(idx, i) = {}}

RECURSIVE BackfillLoop(_, _, _, _, _)
BackfillLoop(idx, todo, docs, fs, deps) ==
    IF todo = {} THEN idx
    ELSE LET i    == Min(todo)
             body == extract_pdf_text(FileAt(fs, docs[i].stored_path), TRUE, deps)
         IN BackfillLoop(InsertRow(idx, Row(i, TitleOf(docs[i]), body, "project")),
                         todo \ {i}, docs, fs, deps)

\* failAt is the document at which the run stops (0: it completes), because
\* its INSERT INTO doc_fts fails or because the process is killed there.
\* The INSERT is not inside a try: its exception leaves the loop and the
\* `with engine.begin()` block, which rolls the transaction back; a killed
\* process never commits, and SQLite discards its transaction.
backfill_fts(deps, failAt) ==
    LET missing == BackfillMissing(project_documents, doc_fts) IN
    /\ failAt = 0 \/ failAt \in missing
    /\ IF failAt = 0
       THEN /\ doc_fts' = BackfillLoop(doc_fts, missing, project_documents, files, deps)
            /\ lastOp' = Op("backfill_fts", deps, missing # {})
       ELSE /\ doc_fts' = doc_fts
            /\ lastOp' = Op("backfill_fts_raised", deps, FALSE)
    /\ UNCHANGED <<lastCall, entities, entity_mentions, procs, alerts>>
    /\ resp' = NoResp
    /\ UNCHANGED <<project_documents, files, foia_attachments>>

(* flask reindex-fts *)
reindex_fts == \E deps \in BOOLEAN, failAt \in {0} \cup DocIds : backfill_fts(deps, failAt)

----------------------------------------------------------------------------
(* flask fts-reindex *)

\* DELETE FROM doc_fts WHERE doc_id NOT IN (SELECT id FROM project_documents)
CleanupProjectOnly(idx, docs) ==
    [r \in {x \in DOMAIN idx : x.doc_id \in DocIds /\ docs[x.doc_id] # NoRow}
        |-> idx[r]]

ReindexDocs(docs) == {i \in DocIds : docs[i] # NoRow /\ DocIsPdf(docs[i])}

RECURSIVE ReindexLoop(_, _, _, _, _)
ReindexLoop(idx, todo, docs, fs, deps) ==
    IF todo = {} THEN idx
    ELSE LET i    == Min(todo)
             body == extract_pdf_text(FileAt(fs, docs[i].stored_path), TRUE, deps)
         IN ReindexLoop(Upsert(idx, Row(i, TitleOf(docs[i]), body, "project")),
                        todo \ {i}, docs, fs, deps)

fts_reindex(deps) ==
    LET cleaned == CleanupProjectOnly(doc_fts, project_documents)
        todo    == ReindexDocs(project_documents)
    IN
    /\ doc_fts' = ReindexLoop(cleaned, todo, project_documents, files, deps)
    /\ UNCHANGED <<lastCall, entities, entity_mentions, procs, alerts>>
    /\ resp' = NoResp
    /\ lastOp' = Op("fts_reindex", deps, todo # {})
    /\ UNCHANGED <<project_documents, files, foia_attachments>>

----------------------------------------------------------------------------
(* FOIA attachments: gmail_sync stores each PDF encrypted, with an OCR'd   *)
(* plaintext copy in OCR_CACHE when OCR worked.                            *)

\* (the PDF inside the encrypted blob, whether the blob decrypts)
AttKinds == { <<Scanned, TRUE>>, <<Scanned, FALSE>> }

AttName(id) == [base |-> <<"m">>, n |-> id, ext |-> Ext_pdf]

store_pdf(kind, toolOk) ==
    LET id  == NextId(ExistingAtts)
        c   == kind[1]
        dec == kind[2]
        ocr == IF dec /\ make_searchable(c, toolOk) THEN ocrmypdf_output(c) ELSE NoFile
    IN
    /\ id \in AttIds
    /\ foia_attachments' = [foia_attachments EXCEPT ![id] =
            [filename |-> AttName(id), mime_type |-> Mime_pdf,
             enc |-> c, dec |-> dec, ocr |-> ocr]]
    /\ UNCHANGED <<lastCall, entities, entity_mentions, procs, alerts>>
    /\ resp' = NoResp
    /\ lastOp' = Op("store_pdf", FALSE, FALSE)
    /\ UNCHANGED <<project_documents, files, doc_fts>>

(* POST /requests/<id>/delete: the request's attachment files and rows *)
request_delete ==
    /\ ExistingAtts # {}
    /\ foia_attachments' = [i \in AttIds |-> NoRow]
    /\ UNCHANGED <<lastCall, entities, entity_mentions, procs, alerts>>
    /\ resp' = NoResp
    /\ lastOp' = Op("request_delete", FALSE, FALSE)
    /\ UNCHANGED <<project_documents, files, doc_fts>>

----------------------------------------------------------------------------
(* scripts/ocr_backfill.py main *)

\* DELETE FROM doc_fts WHERE doc_id NOT IN
\*   (SELECT id FROM project_documents UNION SELECT id FROM foia_attachments)
CleanupBothSources(idx, docs, atts) ==
    [r \in {x \in DOMAIN idx :
               \/ x.doc_id \in DocIds /\ docs[x.doc_id] # NoRow
               \/ x.doc_id \in AttIds /\ atts[x.doc_id] # NoRow}
        |-> idx[r]]

\* one call of ocr_in_place(path): the returned value, the file at path
\* and the file at path + ".ocr.tmp.pdf" afterwards
OcrInPlaceRun(c, toolOk, partial) ==
    IF c = NoFile THEN [ret |-> FALSE, file |-> c, tmp |-> NoFile]
    ELSE LET ms == MakeSearchableRun(c, toolOk, partial) IN
         IF ms.ret /\ ms.out # NoFile
         THEN [ret |-> TRUE,  file |-> ms.out, tmp |-> NoFile]   \* os.replace
         ELSE [ret |-> FALSE, file |-> c,      tmp |-> NoFile]   \* finally: os.unlink

\* ocr_in_place: the file content after the call
ocr_in_place(c, toolOk) == OcrInPlaceRun(c, toolOk, FALSE).file

\* the ProjectDocument loop: state is [idx, fs]
RECURSIVE OcrDocsLoop(_, _, _, _, _)
OcrDocsLoop(st, todo, docs, toolOk, deps) ==
    IF todo = {} THEN st
    ELSE LET i    == Min(todo)
             path == docs[i].stored_path
             c    == ocr_in_place(FileAt(st.fs, path), toolOk)
             body == extract_pdf_text(c, TRUE, deps)
             nxt  == IF FileAt(st.fs, path) = NoFile THEN st
                     ELSE [idx |-> Upsert(st.idx, Row(i, TitleOf(docs[i]), body, "project")),
                           fs  |-> WriteFile(st.fs, path, c)]
         IN OcrDocsLoop(nxt, todo \ {i}, docs, toolOk, deps)

\* the temporary plaintext files the block that makes the OCR copy leaves:
\* os.unlink(tmp_in.name) follows the `with` block inside the try, so an
\* exception of decrypt_file_to_bytes skips it
LeftByOcrCopy(a) == IF a.ocr = NoFile /\ ~a.dec THEN 1 ELSE 0

\* the temporary plaintext files the indexing block leaves: src is set
\* after decrypt_file_to_bytes, so when that raises the finally clause has
\* no name to unlink
LeftByIndexing(a, ocr) == IF ocr = NoFile /\ ~a.dec THEN 1 ELSE 0

\* the FoiaAttachment loop: state is [idx, atts, raised, left]; a decryption
\* error in the indexing block is not caught and ends the loop
RECURSIVE OcrAttsLoop(_, _, _, _)
OcrAttsLoop(st, todo, toolOk, deps) ==
    IF todo = {} \/ st.raised THEN st
    ELSE LET i   == Min(todo)
             a   == st.atts[i]
             ocr == IF a.ocr = NoFile /\ a.dec /\ make_searchable(a.enc, toolOk)
                    THEN ocrmypdf_output(a.enc) ELSE a.ocr
             a2  == [a EXCEPT !.ocr = ocr]
             src == IF ocr # NoFile THEN ocr ELSE a.enc
             body == extract_pdf_text(src, TRUE, deps)
             left == st.left + LeftByOcrCopy(a) + LeftByIndexing(a, ocr)
             nxt == IF ocr = NoFile /\ ~a.dec
                    THEN [st EXCEPT !.raised = TRUE, !.left = left]
                    ELSE [idx    |-> Upsert(st.idx, Row(i, a.filename, body, "attachment")),
                          atts   |-> [st.atts EXCEPT ![i] = a2],
                          raised |-> FALSE,
                          left   |-> left]
         IN OcrAttsLoop(nxt, todo \ {i}, toolOk, deps)

ocr_backfill_main(toolOk, deps) ==
    LET cleaned == CleanupBothSources(doc_fts, project_documents, foia_attachments)
        docs    == {i \in ExistingDocs : DocIsPdf(project_documents[i])}
        atts    == {i \in ExistingAtts :
                      is_pdf_row(foia_attachments[i].filename, foia_attachments[i].mime_type)}
        afterDocs == OcrDocsLoop([idx |-> cleaned, fs |-> files], docs,
                                 project_documents, toolOk, deps)
        afterAtts == OcrAttsLoop([idx |-> afterDocs.idx, atts |-> foia_attachments,
                                  raised |-> FALSE, left |-> 0], atts, toolOk, deps)
    IN
    /\ files' = afterDocs.fs
    /\ IF afterAtts.raised
       THEN \* db.close() without commit: the session's writes are rolled back
            /\ doc_fts' = cleaned
            /\ foia_attachments' = foia_attachments
            /\ lastOp' = [Op("ocr_backfill_raised", deps, FALSE)
                            EXCEPT !.left = afterAtts.left]
       ELSE /\ doc_fts' = afterAtts.idx
            /\ foia_attachments' = afterAtts.atts
            /\ lastOp' = [Op("ocr_backfill", deps, afterAtts.idx # cleaned)
                            EXCEPT !.left = afterAtts.left]
    /\ UNCHANGED <<lastCall, entities, entity_mentions, procs, alerts>>
    /\ resp' = NoResp
    /\ UNCHANGED project_documents

----------------------------------------------------------------------------
(* GET /search?q=... *)

T_o     == <<"o">>
T_or    == <<"o", "r">>
T_orb   == <<"o", "r", "b">>
T_OR    == <<"O", "R">>          \* as a bareword, an FTS5 operator
T_quote == <<"\"">>              \* a lone double quote

\* q.strip().split() of the requests the model sends
Queries == { << >>, <<T_o>>, <<T_or>>, <<T_OR>>, <<T_quote>>, <<T_or, T_orb>> }

\* " AND ".join(f'"{t}"' for t in terms)
m_exact(terms)  == [i \in 1..Len(terms) |-> [form |-> "quoted", term |-> terms[i]]]
\* " AND ".join(f"{t}*" for t in terms)
m_prefix(terms) == [i \in 1..Len(terms) |-> [form |-> "prefix", term |-> terms[i]]]

HasChar(w, ch) == \E i \in 1..Len(w) : w[i] = ch

FtsKeywords == { <<"A", "N", "D">>, <<"O", "R">>, <<"N", "O", "T">> }

\* does the FTS5 query parser accept this operand of the MATCH expression:
\* a quoted string ends at the first lone quote; a bareword holds no quote
\* and is not an operator
FtsOperandOk(item) ==
    IF item.form = "quoted" THEN ~HasChar(item.term, "\"")
    ELSE ~HasChar(item.term, "\"") /\ item.term \notin FtsKeywords

FtsSyntaxOk(m) == \A i \in 1..Len(m) : FtsOperandOk(m[i])

IsPrefix(p, w) == Len(p) <= Len(w) /\ \A i \in 1..Len(p) : p[i] = w[i]

\* the tokens of an index row: the words of title and body (doc_id is
\* UNINDEXED); the numeric suffix of a file name is a token no query has
RowTokens(r) == {r.title.base, Lower(r.title.ext)} \cup {r.body[i] : i \in 1..Len(r.body)}

OperandMatches(item, r) ==
    IF item.form = "quoted"
    THEN \E w \in RowTokens(r) : w = Lower(item.term)
    ELSE \E w \in RowTokens(r) : IsPrefix(Lower(item.term), w)

\* doc_fts MATCH :m
FtsMatch(idx, m) == {r \in DOMAIN idx : \A i \in 1..Len(m) : OperandMatches(m[i], r)}

\* the WITH matches AS (...) query: every matching row joined to the
\* project document and to the attachment that have its doc_id
SearchSql(idx, docs, atts, m) ==
    { [id |-> r.doc_id, src |-> "project", title |-> TitleOf(docs[r.doc_id]),
       excerpt |-> r.body, origin |-> r.origin]
        : r \in {x \in FtsMatch(idx, m) : x.doc_id \in DocIds /\ docs[x.doc_id] # NoRow} }
    \cup
    { [id |-> r.doc_id, src |-> "attachment", title |-> atts[r.doc_id].filename,
       excerpt |-> r.body, origin |-> r.origin]
        : r \in {x \in FtsMatch(idx, m) : x.doc_id \in AttIds /\ atts[x.doc_id] # NoRow} }

Rows(q, rows, phases) == [kind |-> "rows", q |-> q, rows |-> rows, phases |-> phases]
\* an sqlite3.OperationalError leaves the view function: HTTP 500
Fault(q, phases) == [kind |-> "error", q |-> q, rows |-> {}, phases |-> phases]

\* (bug variant: no prefix fallback)
SearchResponse_ExactOnly(q, idx, docs, atts) ==
    IF q = << >> THEN Rows(q, {}, 0)
    ELSE IF ~FtsSyntaxOk(m_exact(q)) THEN Fault(q, 1)
    ELSE Rows(q, SearchSql(idx, docs, atts, m_exact(q)), 1)

\* "try exact, then fallback to prefix"
SearchResponse(q, idx, docs, atts) ==
    IF q = << >> THEN Rows(q, {}, 0)
    ELSE IF ~FtsSyntaxOk(m_exact(q)) THEN Fault(q, 1)
    ELSE LET exact == SearchSql(idx, docs, atts, m_exact(q)) IN
         IF exact # {} THEN Rows(q, exact, 1)
         ELSE IF ~FtsSyntaxOk(m_prefix(q)) THEN Fault(q, 2)
         ELSE Rows(q, SearchSql(idx, docs, atts, m_prefix(q)), 2)

search(q) ==
    /\ UNCHANGED <<lastCall, entities, entity_mentions, procs, alerts>>
    /\ resp' = SearchResponse(q, doc_fts, project_documents, foia_attachments)
    /\ lastOp' = Op("search", FALSE, FALSE)
    /\ UNCHANGED <<project_documents, files, foia_attachments, doc_fts>>

----------------------------------------------------------------------------
(* Calls of the text-extraction and OCR functions on one file *)

Layers == {EmptyText, ScanText, Text19, Padded19, Text20, LongText}

Scans == { << >>, <<Page(EmptyText)>>, <<Page(ScanText)>>, <<BadPage>>,
           <<BadPage, Page(ScanText)>>, <<Page(Text19)>>, <<Page(LongText)>> }

\* the files a path may name, and a path that names none
Pdfs == [readable : BOOLEAN, layer : Layers, scan : Scans] \cup {NoFile}

call_extract_pdf_text(c, ocr_fallback, deps) ==
    LET run == ExtractRun(c, ocr_fallback, deps) IN
    /\ lastCall' = [call |-> "extract_pdf_text", c |-> c, ocr_fallback |-> ocr_fallback,
                    deps |-> deps, ret |-> run.ret, invoked |-> run.invoked,
               raised |-> run.raised]
    /\ UNCHANGED <<app, entities, entity_mentions, procs, alerts>>

call_make_searchable(c, toolOk, partial, deps) ==
    LET run == MakeSearchableRun(c, toolOk, partial) IN
    /\ lastCall' = [call |-> "make_searchable", c |-> c, toolOk |-> toolOk, deps |-> deps,
               ret |-> run.ret, out |-> run.out, subprocess |-> run.subprocess,
               strategyB |-> run.strategyB, raised |-> run.raised]
    /\ UNCHANGED <<app, entities, entity_mentions, procs, alerts>>

call_ocr_in_place(c, toolOk, partial) ==
    LET run == OcrInPlaceRun(c, toolOk, partial) IN
    /\ lastCall' = [call |-> "ocr_in_place", c |-> c, toolOk |-> toolOk,
               ret |-> run.ret, file |-> run.file, tmp |-> run.tmp]
    /\ UNCHANGED <<app, entities, entity_mentions, procs, alerts>>

\* the OCR and extraction steps of the upload handler on one saved file
call_upload_ocr(c, looks_like_pdf, toolOk, deps) ==
    LET stored == UploadStored(c, looks_like_pdf, toolOk) IN
    /\ c # NoFile
    /\ lastCall' = [call |-> "upload", c |-> c, looks_like_pdf |-> looks_like_pdf,
               toolOk |-> toolOk, deps |-> deps, stored |-> stored,
               body |-> IF looks_like_pdf THEN extract_pdf_text(stored, TRUE, deps)
                        ELSE EmptyText]
    /\ UNCHANGED <<app, entities, entity_mentions, procs, alerts>>

\* events.py: the subscriber registry _subs and emit

EventNames == {"document.uploaded", "media.transcribed"}

\* a handler function, and whether it raises an Exception when called
HandlerFns == [fn : {"h1", "h2"}, raises : BOOLEAN]

\* _subs = defaultdict(list)
NoSubs == [n \in {} |-> << >>]

\* @on(name): _subs[name].append(fn)
on(subs, name, fn) ==
    [n \in (DOMAIN subs) \cup {name} |->
        IF n = name
        THEN Append(IF name \in DOMAIN subs THEN subs[name] ELSE << >>, fn)
        ELSE subs[n]]

MaxRegistered == 3

\* the registries that up to n registrations build
RECURSIVE RegistriesAfter(_)
RegistriesAfter(n) ==
    IF n = 0 THEN {NoSubs}
    ELSE LET prev == RegistriesAfter(n - 1) IN
         prev \cup {on(s, name, fn) : s \in prev, name \in EventNames, fn \in HandlerFns}

Registries == RegistriesAfter(MaxRegistered)

\* (bug variant: the handlers of whichever name is in the registry)
Subscribers_AnyName(subs, name) ==
    IF DOMAIN subs = {} THEN << >> ELSE subs[CHOOSE n \in DOMAIN subs : TRUE]

\* _subs.get(name, [])
Subscribers(subs, name) == IF name \in DOMAIN subs THEN subs[name] ELSE << >>

\* for fn in ...: try: fn(name, **kwargs) except Exception: print_exc()
RECURSIVE EmitLoop(_, _, _, _)
EmitLoop(fns, k, name, run) ==
    IF k > Len(fns) \/ run.raised THEN run
    ELSE EmitLoop(fns, k + 1, name,
                  [invoked |-> Append(run.invoked, [fn |-> fns[k].fn, name |-> name]),
                   raised  |-> Escapes(fns[k].raises, TRUE)])

EmitRun(subs, name) ==
    EmitLoop(Subscribers(subs, name), 1, name, [invoked |-> << >>, raised |-> FALSE])

call_emit(subs, name) ==
    LET run == EmitRun(subs, name) IN
    /\ lastCall' = [call |-> "emit", subs |-> subs, name |-> name,
                    invoked |-> run.invoked, raised |-> run.raised]
    /\ UNCHANGED <<app, entities, entity_mentions, procs, alerts>>

NextText ==
    \/ \E c \in Pdfs, ocr_fallback \in BOOLEAN, deps \in BOOLEAN :
          call_extract_pdf_text(c, ocr_fallback, deps)
    \/ \E c \in Pdfs, toolOk \in BOOLEAN, partial \in BOOLEAN, deps \in BOOLEAN :
          call_make_searchable(c, toolOk, partial, deps)
    \/ \E c \in Pdfs, toolOk \in BOOLEAN, partial \in BOOLEAN :
          call_ocr_in_place(c, toolOk, partial)
    \/ \E c \in Pdfs, looks_like_pdf \in BOOLEAN, toolOk \in BOOLEAN, deps \in BOOLEAN :
          call_upload_ocr(c, looks_like_pdf, toolOk, deps)
    \/ \E subs \in Registries, name \in EventNames : call_emit(subs, name)

SpecText == Init /\ [][NextText]_vars

----------------------------------------------------------------------------
Next ==
    \/ \E up \in Uploads, toolOk \in BOOLEAN, deps \in BOOLEAN, ftsOk \in BOOLEAN :
          project_mcpo_upload(up, toolOk, deps, ftsOk)
    \/ \E id \in DocIds : project_doc_delete(id)
    \/ reindex_fts
    \/ \E deps \in BOOLEAN : fts_reindex(deps)
    \/ \E kind \in AttKinds, toolOk \in BOOLEAN : store_pdf(kind, toolOk)
    \/ request_delete
    \/ \E toolOk \in BOOLEAN, deps \in BOOLEAN : ocr_backfill_main(toolOk, deps)
    \/ \E q \in Queries : search(q)

Spec == Init /\ [][Next]_vars

----------------------------------------------------------------------------
(* Entities: the entities-rebuild command and scripts/rebuild_entities.py  *)
(* read the index and fill the tables entities and entity_mentions.  A     *)
(* blob is a sequence of words; a phrase is a sequence of words joined by  *)
(* single blanks.                                                          *)

W_Ann  == <<"A", "n", "n">>
W_Roe  == <<"R", "o", "e">>
W_of   == <<"o", "f">>
W_City == <<"C", "i", "t", "y">>
W_Hall == <<"H", "a", "l", "l">>
W_CITY == <<"C", "I", "T", "Y">>
W_HALL == <<"H", "A", "L", "L">>
W_memo == <<"m", "e", "m", "o">>

\* the hints of the entities-rebuild command
AGENCY_HINTS_app ==
    { <<"s", "h", "e", "r", "i", "f", "f">>,
      <<"p", "o", "l", "i", "c", "e">>,
      <<"d", "e", "p", "a", "r", "t", "m", "e", "n", "t">>,
      <<"o", "f", "f", "i", "c", "e">>,
      <<"p", "r", "o", "s", "e", "c", "u", "t", "o", "r">>,
      <<"c", "o", "u", "n", "t", "y">>,
      <<"s", "t", "a", "t", "e">>,
      <<"c", "i", "t", "y">>,
      <<"b", "o", "a", "r", "d">>,
      <<"c", "o", "u", "r", "t">> }

\* the hints of scripts/rebuild_entities.py
AGENCY_HINTS == AGENCY_HINTS_app \cup
    { <<"c", "o", "m", "m", "i", "s", "s", "i", "o", "n">>,
      <<"d", "i", "s", "t", "r", "i", "c", "t">> }

\* len() of a phrase
PhraseLen(ph) == IF ph = << >> THEN 0 ELSE SumLen(ph) + (Len(ph) - 1)

LowerPhrase(ph) == [i \in 1..Len(ph) |-> Lower(ph[i])]

\* [A-Z][a-z]+
Capitalized(w) ==
    /\ Len(w) >= 2
    /\ w[1] \in UpperChars
    /\ \A i \in 2..Len(w) : w[i] \in LowerChars

\* the number of leading words that satisfy [A-Z][a-z]+, up to max
RECURSIVE CapRun(_, _)
CapRun(ws, max) ==
    IF max = 0 \/ ws = << >> \/ ~Capitalized(Head(ws)) THEN 0
    ELSE 1 + CapRun(Tail(ws), max - 1)

\* NAME_RX.finditer(blob): runs of two to four capitalized words, leftmost
\* and longest first, without overlap
RECURSIVE NameMatches(_)
NameMatches(ws) ==
    IF ws = << >> THEN << >>
    ELSE LET k == CapRun(ws, 4) IN
         IF k >= 2 THEN <<SubSeq(ws, 1, k)>> \o NameMatches(SubSeq(ws, k + 1, Len(ws)))
         ELSE NameMatches(Tail(ws))

\* [A-Za-z&.\-]+
OrgWord(w) ==
    /\ Len(w) >= 1
    /\ \A i \in 1..Len(w) : w[i] \in UpperChars \cup LowerChars \cup {"&", ".", "-"}

\* [A-Za-z][A-Za-z&.\-]+
OrgFirstWord(w) ==
    OrgWord(w) /\ Len(w) >= 2 /\ w[1] \in UpperChars \cup LowerChars

RECURSIVE OrgRun(_, _)
OrgRun(ws, max) ==
    IF max = 0 \/ ws = << >> \/ ~OrgWord(Head(ws)) THEN 0
    ELSE 1 + OrgRun(Tail(ws), max - 1)

\* re.findall of the phrase pattern: two to five words, leftmost and longest
\* first, without overlap
RECURSIVE OrgPhrases(_)
OrgPhrases(ws) ==
    IF ws = << >> THEN << >>
    ELSE LET k == IF OrgFirstWord(Head(ws)) THEN 1 + OrgRun(Tail(ws), 4) ELSE 0 IN
         IF k >= 2 THEN <<SubSeq(ws, 1, k)>> \o OrgPhrases(SubSeq(ws, k + 1, Len(ws)))
         ELSE OrgPhrases(Tail(ws))

\* `h in lw` for a word
Contains(w, h) == \E j \in 0..(Len(w) - Len(h)) : SubSeq(w, j + 1, j + Len(h)) = h

\* str.isupper(): no lowercase letter and at least one uppercase letter
IsUpperPhrase(ph) ==
    /\ \A i \in 1..Len(ph) : \A j \in 1..Len(ph[i]) : ph[i][j] \notin LowerChars
    /\ \E i \in 1..Len(ph) : \E j \in 1..Len(ph[i]) : ph[i][j] \in UpperChars

looks_like_org(ph, hints) ==
    \/ \E i \in 1..Len(ph) : \E h \in hints : Contains(Lower(ph[i]), h)
    \/ IsUpperPhrase(ph)

\* (bug variant: the cache key keeps the case of the name)
EntKey_CaseSensitive(name, kind) == <<name, kind>>

\* key = (name.lower(), kind)
EntKey(name, kind) == <<LowerPhrase(name), kind>>

\* upsert(name, kind) followed by the INSERT INTO entity_mentions; the state
\* of a run is [entities, mentions, cache]
Mention(st, name, kind, doc_id, source) ==
    LET key    == EntKey(name, kind)
        cached == key \in DOMAIN st.cache
        eid    == IF cached THEN st.cache[key] ELSE Len(st.entities) + 1
    IN [entities |-> IF cached THEN st.entities
                     ELSE Append(st.entities, [name |-> name, kind |-> kind]),
        cache    |-> IF cached THEN st.cache ELSE (key :> eid) @@ st.cache,
        mentions |-> Append(st.mentions,
                            [entity_id |-> eid, doc_id |-> doc_id, source |-> source,
                             phrase |-> name, kind |-> kind])]

\* the loop over NAME_RX.finditer(blob)
RECURSIVE PersonLoop(_, _, _, _)
PersonLoop(st, cands, doc_id, source) ==
    IF cands = << >> THEN st
    ELSE LET cand == Head(cands)
             nxt  == IF PhraseLen(cand) < 5 THEN st
                     ELSE Mention(st, cand, "person", doc_id, source)
         IN PersonLoop(nxt, Tail(cands), doc_id, source)

\* the loop over the phrases
RECURSIVE OrgLoop(_, _, _, _, _)
OrgLoop(st, phrases, doc_id, source, hints) ==
    IF phrases = << >> THEN st
    ELSE LET phrase == Head(phrases)
             nxt    == IF PhraseLen(phrase) < 6 \/ ~looks_like_org(phrase, hints) THEN st
                       ELSE Mention(st, phrase, "org", doc_id, source)
         IN OrgLoop(nxt, Tail(phrases), doc_id, source, hints)

insert_mentions(st, blob, doc_id, source, hints) ==
    OrgLoop(PersonLoop(st, NameMatches(blob), doc_id, source),
            OrgPhrases(blob), doc_id, source, hints)

\* after DELETE FROM entity_mentions; DELETE FROM entities, with a new cache
EntStart == [entities |-> << >>, mentions |-> << >>, cache |-> << >>]

\* doc_fts f JOIN project_documents d ON d.id = f.doc_id
EntityDocs(idx, docs) ==
    {r \in DOMAIN idx : r.doc_id \in DocIds /\ docs[r.doc_id] # NoRow}

\* the loop over the joined rows: blob = title + " " + body
RECURSIVE EntDocsLoop(_, _, _, _, _)
EntDocsLoop(st, rows, docs, source, hints) ==
    IF rows = {} THEN st
    ELSE LET r    == CHOOSE x \in rows : \A y \in rows : x.doc_id <= y.doc_id
             blob == TitleOf(docs[r.doc_id]) \o r.body
         IN EntDocsLoop(insert_mentions(st, blob, r.doc_id, source, hints),
                        rows \ {r}, docs, source, hints)

\* (bug variant: the earlier rows are still there when the run starts)
RunStart_Keep(ents, ments) == [entities |-> ents, mentions |-> ments, cache |-> << >>]

\* the tables and the cache a run starts from, whatever the tables held:
\* DELETE FROM entity_mentions; DELETE FROM entities; an empty cache
RunStart(ents, ments) == EntStart

\* (bug variant: what the run had written is committed when it raises)
Committed_Partial(before, after, raised) == after

\* what `with engine.begin()` leaves in the database: the run's writes, or
\* on an exception what was there before the run
Committed(before, after, raised) == IF raised THEN before ELSE after

\* the tables as one value
EntTables(ents, ments) == [entities |-> ents, mentions |-> ments]

(* flask entities-rebuild; failAt is the document at which a statement of  *)
(* the run raises (0: none does)                                           *)
entities_rebuild(failAt) ==
    LET rows   == EntityDocs(doc_fts, project_documents)
        raised == failAt # 0
        reach  == IF raised THEN {r \in rows : r.doc_id < failAt} ELSE rows
        done   == EntDocsLoop(RunStart(entities, entity_mentions), reach,
                              project_documents, "project", AGENCY_HINTS_app)
        final  == Committed(EntTables(entities, entity_mentions),
                            EntTables(done.entities, done.mentions), raised)
    IN
    /\ failAt = 0 \/ \E r \in rows : r.doc_id = failAt
    /\ entities' = final.entities
    /\ entity_mentions' = final.mentions
    /\ resp' = NoResp
    /\ lastOp' = Op(IF raised THEN "entities_rebuild_raised" ELSE "entities_rebuild",
                    FALSE, ~raised)
    /\ UNCHANGED <<project_documents, files, foia_attachments, doc_fts, lastCall,
                   procs, alerts>>

\* a file name as one word of a blob
FileWord(fn) == fn.base \o <<".">> \o fn.ext

\* the loop over the PDF attachments: state is [ent, raised]; the text comes
\* from the OCR copy or from the decrypted blob, and an exception of
\* decrypt_file_to_bytes leaves the loop
RECURSIVE EntAttsLoop(_, _, _, _)
EntAttsLoop(st, todo, atts, deps) ==
    IF todo = {} \/ st.raised THEN st
    ELSE LET i    == Min(todo)
             a    == atts[i]
             path == IF a.ocr # NoFile THEN a.ocr ELSE a.enc
             blob == <<FileWord(a.filename)>> \o extract_pdf_text(path, TRUE, deps)
             nxt  == IF a.ocr = NoFile /\ ~a.dec THEN [st EXCEPT !.raised = TRUE]
                     ELSE [ent    |-> insert_mentions(st.ent, blob, i, "attachment",
                                                      AGENCY_HINTS),
                           raised |-> FALSE]
         IN EntAttsLoop(nxt, todo \ {i}, atts, deps)

(* python scripts/rebuild_entities.py *)
rebuild_entities(deps) ==
    LET afterDocs == EntDocsLoop(RunStart(entities, entity_mentions),
                                 EntityDocs(doc_fts, project_documents),
                                 project_documents, "project", AGENCY_HINTS)
        todo      == {i \in ExistingAtts : MimeIsPdf(foia_attachments[i].mime_type)
                                             \/ NameIsPdf(foia_attachments[i].filename)}
        done      == EntAttsLoop([ent |-> afterDocs, raised |-> FALSE], todo,
                                 foia_attachments, deps)
        \* an exception leaves `with engine.begin()`: everything is rolled back
        final     == Committed(EntTables(entities, entity_mentions),
                               EntTables(done.ent.entities, done.ent.mentions),
                               done.raised)
    IN
    /\ entities' = final.entities
    /\ entity_mentions' = final.mentions
    /\ resp' = NoResp
    /\ lastOp' = Op(IF done.raised THEN "rebuild_entities_raised" ELSE "rebuild_entities",
                    deps, ~done.raised)
    /\ UNCHANGED <<project_documents, files, foia_attachments, doc_fts, lastCall,
                   procs, alerts>>

\* the documents GET /entities/<id> lists: entity_mentions JOIN
\* project_documents ON d.id = m.doc_id WHERE m.entity_id = :id
EntityDetailDocs(eid, ments, docs) ==
    {ments[k].doc_id : k \in {j \in 1..Len(ments) :
                                 /\ ments[j].entity_id = eid
                                 /\ ments[j].doc_id \in DocIds
                                 /\ docs[ments[j].doc_id] # NoRow}}

(* GET /entities/<entity_id> *)
entity_detail(eid) ==
    /\ eid \in 1..Len(entities)
    /\ resp' = [kind |-> "entity_detail", entity_id |-> eid,
                docs |-> EntityDetailDocs(eid, entity_mentions, project_documents)]
    /\ lastOp' = Op("entity_detail", FALSE, FALSE)
    /\ UNCHANGED <<project_documents, files, foia_attachments, doc_fts, lastCall,
                   entities, entity_mentions, procs, alerts>>

\* the titles users give their documents and the texts of the PDFs
EntTitles == { <<W_memo>>, <<W_memo, W_of>> }
EntBodies == { <<W_Ann, W_Roe>>, <<W_Ann, W_Roe, W_of, W_Ann, W_Roe>>,
               <<W_City, W_Hall>>, <<W_CITY, W_HALL>> }

EntDoc(title) ==
    [title |-> title, filename |-> FileName(0, Ext_pdf),
     stored_path |-> FileName(0, Ext_pdf), mime_type |-> Mime_pdf]

EntAtt(body, dec) ==
    [filename |-> [base |-> <<"m">>, n |-> 0, ext |-> Ext_pdf], mime_type |-> Mime_pdf,
     enc |-> [readable |-> TRUE, layer |-> body, scan |-> << >>],
     dec |-> dec, ocr |-> NoFile]

\* the corpus the rebuild runs on: project documents that were uploaded,
\* indexed and given a title, and attachments stored by the mail sync
InitEntities ==
    /\ project_documents \in [DocIds -> {NoRow} \cup {EntDoc(t) : t \in EntTitles}]
    /\ \E body \in [DocIds -> EntBodies] :
          doc_fts = SetToBag({Row(i, FileName(0, Ext_pdf), body[i], "project") :
                                i \in {j \in DocIds : project_documents[j] # NoRow}})
    /\ foia_attachments \in
          [AttIds -> {NoRow} \cup {EntAtt(b, d) : b \in {<<W_Ann, W_Roe>>, <<W_CITY, W_HALL>>},
                                                  d \in BOOLEAN}]
    /\ files = [p \in {} |-> NoFile]
    /\ resp = NoResp
    /\ lastOp = [op |-> "init", deps |-> FALSE, wrote |-> FALSE, again |-> FALSE,
                 left |-> 0, resumed |-> FALSE]
    /\ lastCall = NoCall
    /\ entities = << >>
    /\ entity_mentions = << >>
    /\ procs = << >>
    /\ alerts = << >>

MaxEntityId == 4     \* GET /entities/<id> is requested for ids 1..MaxEntityId

NextEntities ==
    \/ \E failAt \in {0} \cup DocIds : entities_rebuild(failAt)
    \/ \E deps \in BOOLEAN : rebuild_entities(deps)
    \/ \E eid \in 1..MaxEntityId : entity_detail(eid)

SpecEntities == InitEntities /\ [][NextEntities]_vars

----------------------------------------------------------------------------
(* Properties *)

PdfDocs == {i \in ExistingDocs : DocIsPdf(project_documents[i])}

DocFile(i) == FileAt(files, project_documents[i].stored_path)

\* the file ocr_backfill reads an attachment's text from
AttSource(i) == IF foia_attachments[i].ocr # NoFile THEN foia_attachments[i].ocr
                ELSE foia_attachments[i].enc

\* the doc_ids whose row the operation just completed has written (an upload
\* whose index write failed has written none), and the file whose text it
\* extracted last for each of them
IndexedBy(op) ==
    CASE op = "upload"       -> {i \in PdfDocs : i = Max(ExistingDocs) /\ lastOp.wrote}
      [] op = "fts_reindex"  -> PdfDocs
      [] op = "ocr_backfill" -> {i \in PdfDocs : DocFile(i) # NoFile} \cup ExistingAtts
      [] OTHER               -> {}

LastExtracted(op, k) ==
    IF op = "ocr_backfill" /\ k \in ExistingAtts THEN AttSource(k) ELSE DocFile(k)

\* C1: after the upload handler's index step, fts_reindex or the
\* ocr_backfill main loop has indexed a document, doc_fts holds exactly one
\* row for that document's doc_id, and its body is the text of the most
\* recent extraction made for that doc_id.
IdempotentUpsert ==
    \A k \in IndexedBy(lastOp.op) :
        /\ CountRows(doc_fts, k) = 1
        /\ \A r \in RowsOf(doc_fts, k) :
              r.body = extract_pdf_text(LastExtracted(lastOp.op, k), TRUE, lastOp.deps)

\* a second fts_reindex in a row has re-indexed a document with text
IdempotentUpsertWitness ==
    /\ lastOp.op = "fts_reindex" /\ lastOp.again
    /\ \E k \in PdfDocs : \E r \in RowsOf(doc_fts, k) : r.body # EmptyText

\* C2 (as claimed): once ocr_backfill has indexed a project document and an
\* attachment of the same id, doc_fts holds an entry built from each, and a
\* search result tagged with one source never shows the other's entry.
SourcesKeptApart ==
    /\ lastOp.op = "ocr_backfill" =>
          \A i \in PdfDocs \cap ExistingAtts :
              /\ \E r \in RowsOf(doc_fts, i) : r.origin = "project"
              /\ \E r \in RowsOf(doc_fts, i) : r.origin = "attachment"
    /\ resp.kind = "rows" =>
          \A x \in resp.rows :
              (x.id \in PdfDocs \cap ExistingAtts) => x.origin = x.src

\* C3: doc_fts never holds more than one row for a doc_id, whatever the
\* interleaving of upload, backfill, reindex, ocr_backfill and deletion.
AtMostOneRowPerDoc == \A k \in IndexedIds(doc_fts) : CountRows(doc_fts, k) = 1

\* a second ocr_backfill in a row has replaced the rows of both sources
AtMostOneRowWitness ==
    /\ lastOp.op = "ocr_backfill" /\ lastOp.again
    /\ \E r \in DOMAIN doc_fts : r.origin = "project"
    /\ \E r \in DOMAIN doc_fts : r.origin = "attachment"

\* C4: a backfill_fts run that directly follows a backfill_fts run leaves
\* doc_fts as the first run left it: it inserts nothing.
BackfillTwiceInsertsNothing ==
    [][(lastOp.op = "backfill_fts" /\ lastOp'.op = "backfill_fts") =>
         (doc_fts' = doc_fts /\ ~lastOp'.wrote)]_vars

\* a run that directly follows a run that had documents to index
BackfillTwiceWitness ==
    /\ lastOp.op = "backfill_fts" /\ lastOp.again
    /\ \E i \in PdfDocs : \E r \in RowsOf(doc_fts, i) : r.origin = "project"

ReindexFtsIsFull ==
    lastOp.op = "backfill_fts" =>
        \A i \in PdfDocs : \A r \in RowsOf(doc_fts, i) :
            r.body = extract_pdf_text(DocFile(i), TRUE, lastOp.deps)

\* C7: backfill_fts, fts_reindex and ocr_backfill never add an index row
\* built from a project document that is not a PDF.
BatchOps == {"backfill_fts", "fts_reindex", "ocr_backfill", "ocr_backfill_raised"}

\* neither the MIME type nor the file name says PDF
NotAPdf(d) == ~MimeIsPdf(d.mime_type) /\ ~NameIsPdf(d.filename)

NonPdfNeverIndexed ==
    [][lastOp'.op \in BatchOps =>
         \A i \in ExistingDocs :
             NotAPdf(project_documents[i]) =>
                 \A r \in RowsOf(doc_fts', i) :
                     r.origin = "project" => (r \in DOMAIN doc_fts /\ doc_fts'[r] <= doc_fts[r])]_vars

\* a batch run has indexed a PDF while a non-PDF document without any row
\* was in the table
NonPdfWitness ==
    /\ lastOp.op \in {"backfill_fts", "fts_reindex", "ocr_backfill"} /\ lastOp.wrote
    /\ \E i \in ExistingDocs : NotAPdf(project_documents[i]) /\ RowsOf(doc_fts, i) = {}
    /\ \E i \in ExistingDocs : ~NotAPdf(project_documents[i]) /\ RowsOf(doc_fts, i) # {}

\* C8 (as claimed): the cleanup step of fts_reindex and of ocr_backfill
\* removes no row of an existing project document or attachment: each such
\* doc_id that had a row before the command still has one after it.
CleanupKeepsLiveRows ==
    [][lastOp'.op \in {"fts_reindex", "ocr_backfill", "ocr_backfill_raised"} =>
         \A k \in IndexedIds(doc_fts) :
             (k \in ExistingDocs \/ k \in ExistingAtts) => k \in IndexedIds(doc_fts')]_vars

\* C9: a search that returns rows returns those of the exact phase when
\* there are any, having run one phase, and else those of the prefix phase,
\* having run both.
TwoPhaseSearch ==
    (resp.kind = "rows" /\ resp.q # << >>) =>
        LET exact  == SearchSql(doc_fts, project_documents, foia_attachments, m_exact(resp.q))
            prefix == SearchSql(doc_fts, project_documents, foia_attachments, m_prefix(resp.q))
        IN IF exact # {} THEN resp.rows = exact /\ resp.phases = 1
           ELSE resp.rows = prefix /\ resp.phases = 2

\* a query that matches as a prefix only has returned documents
TwoPhaseSearchWitness ==
    /\ resp.kind = "rows" /\ resp.phases = 2 /\ resp.rows # {}
    /\ SearchSql(doc_fts, project_documents, foia_attachments, m_exact(resp.q)) = {}

\* C10 (as claimed): no search request ends in an engine fault.
SearchNeverFaults == resp.kind # "error"

----------------------------------------------------------------------------
(* Properties of the text-extraction and OCR functions (SpecText) *)

\* C11: extract_pdf_text returns the OCR text exactly when ocr_fallback is
\* set, the direct text has fewer than 20 characters after stripping and the
\* OCR text is strictly longer after stripping; otherwise it returns the
\* direct text; OCR is not invoked when the direct text has 20 or more
\* stripped characters or ocr_fallback is false.
ExtractPrefersLongerOcr ==
    lastCall.call = "extract_pdf_text" =>
        LET direct  == pdfminer_text(lastCall.c)
            ocr_txt == ocr_pdf_text(lastCall.c, lastCall.deps)
            useOcr  == /\ lastCall.ocr_fallback
                       /\ StrippedLen(direct) < 20
                       /\ StrippedLen(ocr_txt) > StrippedLen(direct)
        IN /\ lastCall.ret = IF useOcr THEN ocr_txt ELSE direct
           /\ (StrippedLen(direct) >= 20 \/ ~lastCall.ocr_fallback) => ~lastCall.invoked

\* a text layer of 19 characters between surrounding whitespace has been
\* replaced by a longer OCR text
ExtractPrefersLongerOcrWitness ==
    /\ lastCall.call = "extract_pdf_text" /\ lastCall.c # NoFile
    /\ lastCall.c.layer = Padded19 /\ lastCall.invoked /\ lastCall.ret = LongText

\* C12: extract_pdf_text never raises: whatever fails (direct extraction,
\* missing OCR packages, a file that does not open, a page that does not
\* render), it returns a string, the empty one when nothing could be read.
ExtractNeverRaises ==
    lastCall.call = "extract_pdf_text" =>
        /\ ~lastCall.raised
        /\ lastCall.ret \in Layers \cup {Strip(OcrPages(sc)) : sc \in Scans}
        /\ (lastCall.c = NoFile \/ ~lastCall.c.readable) => lastCall.ret = EmptyText

\* a file with a page that fails to render, and no text layer, has given
\* the OCR text of its other page
ExtractNeverRaisesWitness ==
    /\ lastCall.call = "extract_pdf_text" /\ lastCall.c # NoFile
    /\ lastCall.c.readable /\ lastCall.c.layer = EmptyText
    /\ lastCall.c.scan = <<BadPage, Page(ScanText)>>
    /\ lastCall.invoked /\ lastCall.ret = ScanText

\* C13 (as claimed): on a PDF that already has a text layer, make_searchable
\* returns True without starting an OCR subprocess and the output file is a
\* copy of the input.
SearchableInputSkipsOcr ==
    (lastCall.call = "make_searchable" /\ pdf_has_text(lastCall.c)) =>
        /\ lastCall.ret
        /\ lastCall.subprocess = {}
        /\ lastCall.out = lastCall.c

\* C14 (as claimed): make_searchable goes on to the rasterize-then-OCR
\* strategy when ocrmypdf is missing or fails, returns False only when both
\* strategies failed, and never raises.
FallsBackToRasterize ==
    lastCall.call = "make_searchable" =>
        /\ ~lastCall.raised
        /\ ~ocrmypdf_succeeds(lastCall.c, lastCall.toolOk) => lastCall.strategyB
        /\ ~lastCall.ret =>
              /\ ~ocrmypdf_succeeds(lastCall.c, lastCall.toolOk)
              /\ ~ocr_with_pymupdf_tesseract(lastCall.c, lastCall.deps)

\* C15: when OCR fails, ocr_in_place returns False, leaves the file as it
\* was and leaves no ".ocr.tmp.pdf" file; the upload handler stores and
\* indexes the uploaded file; a stored file is replaced only by the output
\* of an OCR run that succeeded.
OcrFailureKeepsOriginal ==
    /\ lastCall.call = "ocr_in_place" =>
          /\ lastCall.tmp = NoFile
          /\ ~ocrmypdf_succeeds(lastCall.c, lastCall.toolOk) =>
                (~lastCall.ret /\ lastCall.file = lastCall.c)
          /\ lastCall.file # lastCall.c =>
                /\ lastCall.ret /\ ocrmypdf_succeeds(lastCall.c, lastCall.toolOk)
                /\ lastCall.file = ocrmypdf_output(lastCall.c)
    /\ lastCall.call = "upload" =>
          /\ ~ocrmypdf_succeeds(lastCall.c, lastCall.toolOk) =>
                /\ lastCall.stored = lastCall.c
                /\ lastCall.looks_like_pdf =>
                      lastCall.body = extract_pdf_text(lastCall.c, TRUE, lastCall.deps)
          /\ lastCall.stored # lastCall.c =>
                /\ ocrmypdf_succeeds(lastCall.c, lastCall.toolOk)
                /\ lastCall.stored = ocrmypdf_output(lastCall.c)

\* an uploaded scan that ocrmypdf could not process has been stored as it
\* came and indexed with the text of the OCR fallback
OcrFailureKeepsOriginalWitness ==
    /\ lastCall.call = "upload" /\ lastCall.looks_like_pdf /\ ~lastCall.toolOk
    /\ lastCall.c.readable /\ lastCall.c.layer = EmptyText
    /\ lastCall.stored = lastCall.c /\ lastCall.body = ScanText

----------------------------------------------------------------------------
(* Properties of the batch commands under faults (Spec) *)

\* C16 (as claimed): a document that is missing, corrupt or cannot be
\* decrypted never aborts backfill_fts, fts_reindex or ocr_backfill: after
\* the run every eligible project document that it handles has a committed
\* row holding the text extracted from its file.
BadDocumentNeverAborts ==
    /\ lastOp.op \in {"fts_reindex", "ocr_backfill", "ocr_backfill_raised"} =>
          \A i \in PdfDocs :
              DocFile(i) # NoFile =>
                  \E r \in RowsOf(doc_fts, i) :
                      r.body = extract_pdf_text(DocFile(i), TRUE, lastOp.deps)
    /\ lastOp.op = "backfill_fts" => \A i \in PdfDocs : RowsOf(doc_fts, i) # {}

\* C17 (as claimed): when the index write of one document fails during
\* backfill_fts, the run goes on and commits: at most that one document is
\* left without a row.
IndexFailureIsPerDocument ==
    [][lastOp'.op \in {"backfill_fts", "backfill_fts_raised"} =>
         /\ lastOp'.op = "backfill_fts"
         /\ Cardinality({i \in PdfDocs : RowsOf(doc_fts', i) = {}}) <= 1]_vars

\* C18 (as claimed): when the ocr_backfill main loop is done with an
\* attachment, every temporary plaintext file it created for it has been
\* deleted.
NoTempPlaintextLeft ==
    lastOp.op \in {"ocr_backfill", "ocr_backfill_raised"} => lastOp.left = 0

----------------------------------------------------------------------------
(* Properties of the entity tables (SpecEntities) *)

\* C19: after any rebuild run no two rows of entities have the same kind
\* and names that are equal ignoring case, and every mention of a phrase
\* references the one entity that has the phrase's kind and name.
EntityDedup ==
    /\ \A i, j \in 1..Len(entities) :
          (/\ entities[i].kind = entities[j].kind
           /\ LowerPhrase(entities[i].name) = LowerPhrase(entities[j].name)) => i = j
    /\ \A k \in 1..Len(entity_mentions) :
          LET m == entity_mentions[k] IN
          /\ m.entity_id \in 1..Len(entities)
          /\ entities[m.entity_id].kind = m.kind
          /\ LowerPhrase(entities[m.entity_id].name) = LowerPhrase(m.phrase)

\* one org entity is referenced by two documents that spell it in different
\* cases
EntityDedupWitness ==
    \E a, b \in 1..Len(entity_mentions) :
        /\ entity_mentions[a].entity_id = entity_mentions[b].entity_id
        /\ entity_mentions[a].doc_id # entity_mentions[b].doc_id
        /\ entity_mentions[a].source = entity_mentions[b].source
        /\ entity_mentions[a].phrase # entity_mentions[b].phrase
        /\ entity_mentions[a].kind = "org"

\* C20 (as claimed): entity_mentions holds one row per (entity, document)
\* pair, however often the phrase occurs in the document.
MentionsArePerDocument ==
    \A a, b \in 1..Len(entity_mentions) :
        (/\ entity_mentions[a].entity_id = entity_mentions[b].entity_id
         /\ entity_mentions[a].doc_id = entity_mentions[b].doc_id
         /\ entity_mentions[a].source = entity_mentions[b].source) => a = b

\* C21 (as claimed): mentions of project document n and of attachment n are
\* kept apart: every document that the entity detail view lists for an
\* entity is a project document whose own text mentions the entity.
EntityViewsKeepSourcesApart ==
    resp.kind = "entity_detail" =>
        \A d \in resp.docs :
            \E k \in 1..Len(entity_mentions) :
                /\ entity_mentions[k].entity_id = resp.entity_id
                /\ entity_mentions[k].doc_id = d
                /\ entity_mentions[k].source = "project"

\* C22: a rebuild run in which an exception occurs leaves entities and
\* entity_mentions exactly as they were before it started.
RebuildRollsBack ==
    [][lastOp'.op \in {"entities_rebuild_raised", "rebuild_entities_raised"} =>
         (entities' = entities /\ entity_mentions' = entity_mentions)]_vars

\* a run that raised after an earlier run had filled the tables
RebuildRollsBackWitness ==
    /\ lastOp.op \in {"entities_rebuild_raised", "rebuild_entities_raised"}
    /\ entities # << >> /\ entity_mentions # << >>

\* the (name, kind) pairs of the entities
EntityKeys(ents) == {<<ents[i].name, ents[i].kind>> : i \in 1..Len(ents)}

\* the mentions as (name, kind, document, source), each with its number of rows
MentionCounts(ents, ments) ==
    LET key(m) == <<ents[m.entity_id].name, m.kind, m.doc_id, m.source>>
        keys   == {key(ments[k]) : k \in 1..Len(ments)}
    IN [x \in keys |-> Cardinality({k \in 1..Len(ments) : key(ments[k]) = x})]

\* C25: a rebuild that directly follows a completed run of the same command
\* yields the same (name, kind) entities and the same mentions per entity
\* and document: nothing of the earlier run is added to or kept.
RebuildTwiceSame ==
    [][(/\ lastOp'.op \in {"entities_rebuild", "rebuild_entities"}
        /\ lastOp.op = lastOp'.op /\ lastOp.deps = lastOp'.deps) =>
         /\ EntityKeys(entities') = EntityKeys(entities)
         /\ Len(entities') = Len(entities)
         /\ MentionCounts(entities', entity_mentions') =
               MentionCounts(entities, entity_mentions)]_vars

\* a second run of the script in a row, with mentions of both sources
RebuildTwiceSameWitness ==
    /\ lastOp.op = "rebuild_entities" /\ lastOp.again
    /\ \E k \in 1..Len(entity_mentions) : entity_mentions[k].source = "project"
    /\ \E k \in 1..Len(entity_mentions) : entity_mentions[k].source = "attachment"

----------------------------------------------------------------------------
\* C24: backfill is resumable.  A run that is stopped leaves at most one row
\* per document; a run that completes inserts a row for exactly the eligible
\* project documents that had none, and after it every eligible project
\* document has exactly one row.
BackfillResumable ==
    [][/\ lastOp'.op = "backfill_fts_raised" =>
            \A k \in IndexedIds(doc_fts') : CountRows(doc_fts', k) = 1
       /\ lastOp'.op = "backfill_fts" =>
            /\ \A k \in DocIds :
                  CountRows(doc_fts', k) - CountRows(doc_fts, k) =
                     IF k \in BackfillMissing(project_documents, doc_fts)
                     THEN 1 ELSE 0
            /\ \A k \in PdfDocs' : CountRows(doc_fts', k) = 1]_vars

\* a run that completed directly after a stopped one and indexed what was
\* missing, next to a document that was indexed before
BackfillResumableWitness ==
    /\ lastOp.op = "backfill_fts" /\ lastOp.resumed /\ lastOp.wrote
    /\ Cardinality(PdfDocs) = MaxDocId

----------------------------------------------------------------------------
\* C27 (as claimed): a search result shows text of the document it names,
\* never the index row of a deleted document whose id a later upload
\* received.  No indexing operation writes a row for a project document
\* that is not a PDF, so a project result made of a project row names a PDF.
DeletedRowNeverShown ==
    resp.kind = "rows" =>
        \A r \in resp.rows :
            (r.src = "project" /\ r.origin = "project") =>
                DocIsPdf(project_documents[r.id])

----------------------------------------------------------------------------
\* C26: emit(name) has called, when it returns, every handler registered for
\* name, once each and in the order of registration, and no handler
\* registered for another name; a handler's exception neither leaves emit
\* nor keeps the later handlers from being called.
EmitCallsSubscribers ==
    lastCall.call = "emit" =>
        LET regd == IF lastCall.name \in DOMAIN lastCall.subs
                    THEN lastCall.subs[lastCall.name] ELSE << >> IN
        /\ ~lastCall.raised
        /\ lastCall.invoked =
              [k \in 1..Len(regd) |-> [fn |-> regd[k].fn, name |-> lastCall.name]]

\* two handlers of the emitted name, the first of which raises, and a
\* handler of another name
EmitCallsSubscribersWitness ==
    /\ lastCall.call = "emit"
    /\ DOMAIN lastCall.subs = EventNames
    /\ Len(lastCall.subs[lastCall.name]) = 2
    /\ lastCall.subs[lastCall.name][1].raises
    /\ lastCall.subs[lastCall.name][1].fn # lastCall.subs[lastCall.name][2].fn
    /\ Len(lastCall.invoked) = 2

----------------------------------------------------------------------------
(* flask send-alerts, without --force and with a Signal group *)

MaxDay == 8
MaxSent == 4
RequestIds == {1, 2}

\* a nullable Date column: << >> is NULL, <<d>> is day d
NoDate == << >>
OnDay(d) == <<d>>

\* due = (dleft in (21, 14, 7)); ... due and p.last_deadline_alert != today
DueProject(p, today) ==
    /\ p.deadline # NoDate
    /\ (p.deadline[1] - today) \in {21, 14, 7}
    /\ p.last_deadline_alert # OnDay(today)

\* due = (last is None) or ((today - last) >= timedelta(days=7))
DueRequest(r, today) ==
    r.last_reminder_at = NoDate \/ today - r.last_reminder_at[1] >= 7

\* the requests of ids >= k that are due, in the order of the query
RECURSIVE DueRequests(_, _, _)
DueRequests(reqs, k, today) ==
    IF k \notin DOMAIN reqs THEN << >>
    ELSE (IF DueRequest(reqs[k], today) THEN <<[kind |-> "reminder", id |-> k]>>
          ELSE << >>) \o DueRequests(reqs, k + 1, today)

\* the messages of one run in the order of their send_signal_group calls:
\* the projects loop, then the FOIA reminders loop
AlertsDue(a) ==
    (IF DueProject(a.project, a.today) THEN <<[kind |-> "deadline", id |-> 1]>>
     ELSE << >>) \o DueRequests(a.requests, 1, a.today)

\* p.last_deadline_alert = today and r.last_reminder_at = today of the
\* messages that were sent
Marked(a, msgs) ==
    LET has(kind, id) == \E k \in 1..Len(msgs) : msgs[k] = [kind |-> kind, id |-> id] IN
    [project  |-> IF has("deadline", 1)
                  THEN [a.project EXCEPT !.last_deadline_alert = OnDay(a.today)]
                  ELSE a.project,
     requests |-> [k \in DOMAIN a.requests |->
                     IF has("reminder", k)
                     THEN [a.requests[k] EXCEPT !.last_reminder_at = OnDay(a.today)]
                     ELSE a.requests[k]]]

Stamp(msgs, today) ==
    [k \in 1..Len(msgs) |-> [kind |-> msgs[k].kind, id |-> msgs[k].id, day |-> today]]

\* failAt is the send_signal_group call that raises RuntimeError (0: none).
\* The exception is not caught: it skips db.commit(), and db.close() in the
\* finally block discards the markers set so far.
send_alerts(failAt) ==
    LET due       == AlertsDue(alerts)
        raised    == failAt # 0
        delivered == IF raised THEN SubSeq(due, 1, failAt - 1) ELSE due
        before    == [project |-> alerts.project, requests |-> alerts.requests]
        after     == Committed(before, Marked(alerts, delivered), raised)
    IN
    /\ failAt \in 0..Len(due)
    /\ Len(alerts.sent) + Len(delivered) <= MaxSent
    /\ alerts' = [alerts EXCEPT !.project = after.project,
                                !.requests = after.requests,
                                !.sent = @ \o Stamp(delivered, alerts.today),
                                !.op = IF raised THEN "send_alerts_raised"
                                       ELSE "send_alerts"]
    /\ UNCHANGED <<app, lastCall, entities, entity_mentions, procs>>

\* midnight in LOCAL_TZ: today_local() is one day later
next_day ==
    /\ alerts.today < MaxDay
    /\ alerts' = [alerts EXCEPT !.today = @ + 1, !.op = "next_day"]
    /\ UNCHANGED <<app, lastCall, entities, entity_mentions, procs>>

\* one project, with or without a deadline, and two pending requests that
\* have or have not been reminded of on day 0
InitAlerts ==
    /\ project_documents = [i \in DocIds |-> NoRow]
    /\ files = [p \in {} |-> NoFile]
    /\ foia_attachments = [i \in AttIds |-> NoRow]
    /\ doc_fts = EmptyBag
    /\ resp = NoResp
    /\ lastOp = [op |-> "init", deps |-> FALSE, wrote |-> FALSE, again |-> FALSE,
                 left |-> 0, resumed |-> FALSE]
    /\ lastCall = NoCall
    /\ entities = << >>
    /\ entity_mentions = << >>
    /\ procs = << >>
    /\ \E deadline \in {NoDate, OnDay(MaxDay + 7)},
          lasts \in [RequestIds -> {NoDate, OnDay(0)}] :
          alerts = [today |-> 0,
                    project |-> [deadline |-> deadline, last_deadline_alert |-> NoDate],
                    requests |-> [k \in RequestIds |-> [last_reminder_at |-> lasts[k]]],
                    sent |-> << >>,
                    op |-> "init"]

NextAlerts ==
    \/ \E failAt \in 0..(1 + Cardinality(RequestIds)) : send_alerts(failAt)
    \/ next_day

SpecAlerts == InitAlerts /\ [][NextAlerts]_vars

\* C29 (as claimed): over any sequence of runs without --force, two
\* reminders sent for the same request are at least 7 days apart, and two
\* deadline alerts sent for the same project are on different days, also
\* when an earlier run stopped at a send that raised.
AtMostOneAlertPerPeriod ==
    \A a, b \in 1..Len(alerts.sent) :
        (a < b /\ alerts.sent[a].kind = alerts.sent[b].kind
               /\ alerts.sent[a].id = alerts.sent[b].id) =>
            IF alerts.sent[a].kind = "reminder"
            THEN alerts.sent[b].day - alerts.sent[a].day >= 7
            ELSE alerts.sent[b].day # alerts.sent[a].day

----------------------------------------------------------------------------
(* Concurrent requests and commands on one SQLite database.  Each of them   *)
(* writes inside one transaction (a Session that is committed once, or a    *)
(* `with engine.begin()` block); SQLite admits one write transaction at a   *)
(* time, and in WAL mode (PRAGMA journal_mode=WAL) every other connection   *)
(* reads the last committed state.  project_documents, doc_fts, entities    *)
(* and entity_mentions are the committed tables; procs.tx is the open write *)
(* transaction, with the tables as its connection sees them.               *)

Uploaders == {"u1", "u2"}

NoTx == [owner |-> "none"]
NoEvent == [emitted |-> FALSE]

\* the committed tables
Db == [docs |-> project_documents, idx |-> doc_fts,
       ents |-> entities, ments |-> entity_mentions]

\* the tables as the connection of the open transaction sees them
TxDb == [docs |-> procs.tx.docs, idx |-> procs.tx.idx,
         ents |-> procs.tx.ents, ments |-> procs.tx.ments]

Begin(owner, db) ==
    [owner |-> owner, before |-> db, docs |-> db.docs, idx |-> db.idx,
     ents |-> db.ents, ments |-> db.ments]

\* (bug variant: a connection reads the uncommitted rows of another)
Visible_Dirty(committed, uncommitted) == uncommitted

\* what a connection outside the transaction reads
Visible(committed, uncommitted) == committed

\* COMMIT: the tables of the transaction become the committed tables
Publish ==
    /\ project_documents' = procs.tx.docs
    /\ doc_fts' = procs.tx.idx
    /\ entities' = procs.tx.ents
    /\ entity_mentions' = procs.tx.ments

Unpublished == UNCHANGED <<project_documents, doc_fts, entities, entity_mentions>>

\* the two files that are uploaded, both under the name a.pdf
ConcPdf(p) ==
    IF p = "u1"
    THEN [readable |-> TRUE, scan |-> << >>,
          layer |-> <<W_Ann, W_Roe, W_of, W_City, W_Hall, W_Ann, W_Roe>>]
    ELSE [readable |-> TRUE, scan |-> << >>,
          layer |-> <<W_CITY, W_HALL, W_memo, W_of, W_Ann, W_Roe>>]

\* title=filename, filename=filename, stored_path=stored_path, mime_type=mime
ConcDoc(path) ==
    [title |-> <<FileWord(path)>>, filename |-> path, stored_path |-> path,
     mime_type |-> Mime_pdf]

Step(p, pc) == [procs EXCEPT ![p].pc = pc]

\* while os.path.exists(stored_path): filename = f"{base}-{i}{ext_real}"
u_name(p) ==
    /\ procs[p].pc = "start"
    /\ procs' = [procs EXCEPT ![p].pc = "named",
                              ![p].path = FreeName(files, 0, Ext_pdf)]
    /\ resp' = NoResp
    /\ Unpublished
    /\ UNCHANGED <<files, foia_attachments, lastOp, lastCall, alerts>>

\* f.save(stored_path)
u_save(p) ==
    /\ procs[p].pc = "named"
    /\ files' = WriteFile(files, procs[p].path, ConcPdf(p))
    /\ procs' = Step(p, "saved")
    /\ resp' = NoResp
    /\ Unpublished
    /\ UNCHANGED <<foia_attachments, lastOp, lastCall, alerts>>

\* db.add(doc); db.flush(): the INSERT opens the write transaction, and
\* waits while another connection has one open
u_flush(p) ==
    LET id == NextId(ExistingDocs) IN
    /\ procs[p].pc = "saved"
    /\ procs.tx = NoTx
    /\ id \in DocIds
    /\ procs' = [procs EXCEPT
                    ![p].pc = "flushed", ![p].id = id,
                    !.tx = [Begin(p, Db) EXCEPT !.docs[id] = ConcDoc(procs[p].path)]]
    /\ resp' = NoResp
    /\ Unpublished
    /\ UNCHANGED <<files, foia_attachments, lastOp, lastCall, alerts>>

\* body = extract_pdf_text(doc.stored_path); DELETE FROM doc_fts WHERE doc_id = :id
u_delete_fts(p) ==
    /\ procs[p].pc = "flushed"
    /\ procs' = [procs EXCEPT
                    ![p].pc = "deleted",
                    ![p].body = extract_pdf_text(FileAt(files, procs[p].path), TRUE, TRUE),
                    !.tx.idx = DeleteDocId(@, procs[p].id)]
    /\ resp' = NoResp
    /\ Unpublished
    /\ UNCHANGED <<files, foia_attachments, lastOp, lastCall, alerts>>

\* INSERT INTO doc_fts (doc_id, title, body)
u_insert_fts(p) ==
    /\ procs[p].pc = "deleted"
    /\ procs' = [procs EXCEPT
                    ![p].pc = "indexed",
                    !.tx.idx = InsertRow(@, Row(procs[p].id,
                                                TitleOf(procs.tx.docs[procs[p].id]),
                                                procs[p].body, "project"))]
    /\ resp' = NoResp
    /\ Unpublished
    /\ UNCHANGED <<files, foia_attachments, lastOp, lastCall, alerts>>

\* emit("document.uploaded", doc_id=doc.id, ...): _on_doc_uploaded opens its
\* own SessionLocal() and calls db.get(ProjectDocument, doc_id)
u_emit(p) ==
    LET d == Visible(project_documents, procs.tx.docs)[procs[p].id] IN
    /\ procs[p].pc = "indexed"
    /\ procs' = [procs EXCEPT
                    ![p].pc = "emitted",
                    ![p].event = [emitted |-> TRUE, doc_id |-> procs[p].id,
                                  found |-> d # NoRow]]
    /\ resp' = NoResp
    /\ Unpublished
    /\ UNCHANGED <<files, foia_attachments, lastOp, lastCall, alerts>>

\* db.commit()
u_commit(p) ==
    /\ procs[p].pc = "emitted"
    /\ Publish
    /\ procs' = [procs EXCEPT ![p].pc = "done", !.tx = NoTx]
    /\ resp' = NoResp
    /\ UNCHANGED <<files, foia_attachments, lastOp, lastCall, alerts>>

\* the request ends without db.commit(): the commit raises, or the worker
\* is stopped while it handles a later file of the same request;
\* db.close() or SQLite rolls the transaction back
u_abort(p) ==
    /\ procs[p].pc = "emitted"
    /\ procs' = [procs EXCEPT ![p].pc = "failed", !.tx = NoTx]
    /\ resp' = NoResp
    /\ Unpublished
    /\ UNCHANGED <<files, foia_attachments, lastOp, lastCall, alerts>>

\* flask fts-reindex: DELETE ... WHERE doc_id NOT IN (SELECT id FROM
\* project_documents), then the list of the PDFs
x_begin ==
    /\ procs.x.pc \in {"start", "done"}
    /\ procs.tx = NoTx
    /\ procs' = [procs EXCEPT
                    !.x.pc = "listed",
                    !.x.todo = ReindexDocs(project_documents),
                    !.tx = [Begin("x", Db) EXCEPT
                              !.idx = CleanupProjectOnly(doc_fts, project_documents)]]
    /\ resp' = NoResp
    /\ Unpublished
    /\ UNCHANGED <<files, foia_attachments, lastOp, lastCall, alerts>>

\* body = extract_pdf_text(row["path"]); DELETE FROM doc_fts WHERE doc_id = :id
x_delete ==
    LET i == Min(procs.x.todo) IN
    /\ procs.x.pc = "listed" /\ procs.x.todo # {}
    /\ procs' = [procs EXCEPT
                    !.x.pc = "deleted",
                    !.x.body = extract_pdf_text(
                                  FileAt(files, procs.tx.docs[i].stored_path), TRUE, TRUE),
                    !.tx.idx = DeleteDocId(@, i)]
    /\ resp' = NoResp
    /\ Unpublished
    /\ UNCHANGED <<files, foia_attachments, lastOp, lastCall, alerts>>

\* INSERT INTO doc_fts (doc_id, title, body)
x_insert ==
    LET i == Min(procs.x.todo) IN
    /\ procs.x.pc = "deleted"
    /\ procs' = [procs EXCEPT
                    !.x.pc = "listed",
                    !.x.todo = @ \ {i},
                    !.x.body = EmptyText,
                    !.tx.idx = InsertRow(@, Row(i, TitleOf(procs.tx.docs[i]),
                                                procs.x.body, "project"))]
    /\ resp' = NoResp
    /\ Unpublished
    /\ UNCHANGED <<files, foia_attachments, lastOp, lastCall, alerts>>

\* the end of the `with engine.begin()` block
x_commit ==
    /\ procs.x.pc = "listed" /\ procs.x.todo = {}
    /\ Publish
    /\ procs' = [procs EXCEPT !.x.pc = "done", !.tx = NoTx]
    /\ resp' = NoResp
    /\ UNCHANGED <<files, foia_attachments, lastOp, lastCall, alerts>>

\* flask entities-rebuild: DELETE FROM entity_mentions
e_delete_mentions ==
    /\ procs.e.pc \in {"start", "done"}
    /\ procs.tx = NoTx
    /\ procs' = [procs EXCEPT !.e.pc = "mentions_deleted",
                              !.tx = [Begin("e", Db) EXCEPT !.ments = << >>]]
    /\ resp' = NoResp
    /\ Unpublished
    /\ UNCHANGED <<files, foia_attachments, lastOp, lastCall, alerts>>

\* DELETE FROM entities
e_delete_entities ==
    /\ procs.e.pc = "mentions_deleted"
    /\ procs' = [procs EXCEPT !.e.pc = "entities_deleted", !.tx.ents = << >>]
    /\ resp' = NoResp
    /\ Unpublished
    /\ UNCHANGED <<files, foia_attachments, lastOp, lastCall, alerts>>

\* the loop over doc_fts JOIN project_documents
e_fill ==
    LET done == EntDocsLoop(RunStart(procs.tx.ents, procs.tx.ments),
                            EntityDocs(procs.tx.idx, procs.tx.docs),
                            procs.tx.docs, "project", AGENCY_HINTS_app) IN
    /\ procs.e.pc = "entities_deleted"
    /\ procs' = [procs EXCEPT !.e.pc = "filled", !.tx.ents = done.entities,
                              !.tx.ments = done.mentions]
    /\ resp' = NoResp
    /\ Unpublished
    /\ UNCHANGED <<files, foia_attachments, lastOp, lastCall, alerts>>

\* the end of the `with engine.begin()` block
e_commit ==
    /\ procs.e.pc = "filled"
    /\ Publish
    /\ procs' = [procs EXCEPT !.e.pc = "done", !.tx = NoTx]
    /\ resp' = NoResp
    /\ UNCHANGED <<files, foia_attachments, lastOp, lastCall, alerts>>

\* a request that reads the tables on its own connection (the search and
\* entity views) while a write transaction is open
observe ==
    /\ procs.tx # NoTx
    /\ resp' = [kind |-> "observed", during |-> procs.tx.owner,
                before |-> procs.tx.before, db |-> Visible(Db, TxDb)]
    /\ Unpublished
    /\ UNCHANGED <<files, foia_attachments, lastOp, lastCall, procs, alerts>>

\* an empty corpus, or one with an indexed document whose entities were built
InitConc ==
    /\ foia_attachments = [i \in AttIds |-> NoRow]
    /\ resp = NoResp
    /\ lastOp = [op |-> "init", deps |-> FALSE, wrote |-> FALSE, again |-> FALSE,
                 left |-> 0, resumed |-> FALSE]
    /\ lastCall = NoCall
    /\ alerts = << >>
    /\ procs = [u1 |-> [pc |-> "start", path |-> NoFile, id |-> 0, body |-> EmptyText,
                        event |-> NoEvent],
                u2 |-> [pc |-> "start", path |-> NoFile, id |-> 0, body |-> EmptyText,
                        event |-> NoEvent],
                x  |-> [pc |-> "start", todo |-> {}, body |-> EmptyText],
                e  |-> [pc |-> "start"],
                tx |-> NoTx]
    /\ \/ /\ project_documents = [i \in DocIds |-> NoRow]
          /\ files = [p \in {} |-> NoFile]
          /\ doc_fts = EmptyBag
          /\ entities = << >>
          /\ entity_mentions = << >>
       \/ LET path == FileName(0, Ext_PDF)
              docs == [i \in DocIds |-> IF i = 1 THEN ConcDoc(path) ELSE NoRow]
              idx  == SetToBag({Row(1, <<FileWord(path)>>, ConcPdf("u1").layer, "project")})
              ent  == EntDocsLoop(EntStart, EntityDocs(idx, docs), docs, "project",
                                  AGENCY_HINTS_app)
          IN /\ project_documents = docs
             /\ files = WriteFile([p \in {} |-> NoFile], path, ConcPdf("u1"))
             /\ doc_fts = idx
             /\ entities = ent.entities
             /\ entity_mentions = ent.mentions

NextConc ==
    \/ \E p \in Uploaders : u_name(p)
    \/ \E p \in Uploaders : u_save(p)
    \/ \E p \in Uploaders : u_flush(p)
    \/ \E p \in Uploaders : u_delete_fts(p)
    \/ \E p \in Uploaders : u_insert_fts(p)
    \/ \E p \in Uploaders : u_emit(p)
    \/ \E p \in Uploaders : u_commit(p)
    \/ \E p \in Uploaders : u_abort(p)
    \/ x_begin
    \/ x_delete
    \/ x_insert
    \/ x_commit
    \/ e_delete_mentions
    \/ e_delete_entities
    \/ e_fill
    \/ e_commit
    \/ observe

SpecConc == InitConc /\ [][NextConc]_vars

EventOnlyForCommittedDoc ==
    \A p \in Uploaders :
        procs[p].event.emitted =>
            /\ procs[p].event.found
            /\ procs[p].pc # "failed"

\* C30 (as claimed): two uploads of files with the same original name never
\* get the same stored_path.
StoredPathsDistinct ==
    \A i, j \in ExistingDocs :
        i # j => project_documents[i].stored_path # project_documents[j].stored_path

====
